---- MODULE Spec2Model ----
(***************************************************************************)
(* Model of target-bigquery (Yoast/target-bigquery): the Singer message    *)
(* loop of persist_lines_job (batch load) and persist_lines_stream         *)
(* (streaming insert), driven by main and observed through the calls made  *)
(* on the BigQuery client and the state lines written to stdout.           *)
(*                                                                         *)
(* Payloads are identified by the number of the input line that carried    *)
(* them: the schema of the SCHEMA message on line n is n, the record of    *)
(* the RECORD message on line n is n, the value of the STATE message on    *)
(* line n is <<n>>, or <<n, "Decimal">> when it holds a number with a      *)
(* fraction (parsed to a Decimal), or None when the line's value is null.  *)
(* Python's None is the empty sequence.                                    *)
(* A Python dict is an insertion-ordered sequence of [k, v] entries.       *)
(***************************************************************************)
EXTENDS Integers, Sequences, FiniteSets, TLC

VARIABLES
    config,          \* target.py: truncate, stream_data, forced_fulltables, ...
    bq_dataset,      \* warehouse: whether the dataset exists
    bq_tables,       \* warehouse: names of the tables that exist
    pc,              \* position of the run
    error,           \* the exception that ended the run, "" if none
    lines,           \* the input lines read so far
    state,           \* persist_lines_*: state
    schemas,         \* persist_lines_*: schemas
    key_properties,  \* persist_lines_*: key_properties
    tables,          \* persist_lines_stream: tables
    rows,            \* persist_lines_*: rows (spool per table / counter)
    errors,          \* persist_lines_*: errors
    todo,            \* keys left to visit in the loop that follows the input
    log,             \* calls made on the BigQuery client, in order
    now,             \* seconds slept so far (time.sleep)
    stdout,          \* state values written by emit_state
    invocation,      \* schema.py: the function called and its arguments
    returned         \* schema.py: what the call returned or raised

vars == <<config, bq_dataset, bq_tables, pc, error, lines, state, schemas,
          key_properties, tables, rows, errors, todo, log, now, stdout,
          invocation, returned>>

locals == <<state, schemas, key_properties, tables, rows, errors>>

(***************************************************************************)
(* Bounds and input alphabets.                                             *)
(***************************************************************************)
MaxLines == 4

Streams == {"a", "pa"}
Prefixes == {"", "p"}
Suffixes == {"", "x"}
ForcedChoices == {{}, {"pa"}}
ExistingChoices == {{}, {"pa"}}

FIVE_MINUTES == 300

None == <<>>

(***************************************************************************)
(* Python dict: insertion-ordered.                                         *)
(***************************************************************************)
Keys(d) == [i \in 1..Len(d) |-> d[i].k]

Has(d, key) == \E i \in 1..Len(d) : d[i].k = key

Get(d, key) == d[CHOOSE i \in 1..Len(d) : d[i].k = key].v

Put(d, key, val) ==
    IF Has(d, key)
    THEN [i \in 1..Len(d) |-> IF d[i].k = key THEN [k |-> key, v |-> val] ELSE d[i]]
    ELSE Append(d, [k |-> key, v |-> val])

(***************************************************************************)
(* Input lines as singer.parse_message classifies them.                    *)
(***************************************************************************)
Msg(type, stream, conforms) == [type |-> type, stream |-> stream, conforms |-> conforms]

\* What build_schema does with the schema a SCHEMA message carries: it
\* returns the columns ("built"), or raises KeyError (an object node with no
\* "properties") or ValueError (a type that define_schema does not know).
BuildErrors == {"KeyError", "ValueError"}

BuildResults == {"built"} \cup BuildErrors

\* The values the STATE message on line n can carry: null, a value that
\* json.dumps can write, a value that holds a Decimal.
StateValues(n) == {None, <<n>>, <<n, "Decimal">>}

\* A STATE message and its value: None when the line's "value" is null.
StateMsg(value) == [type |-> "STATE", stream |-> "", conforms |-> TRUE, value |-> value]

SchemaMsg(stream, builds) ==
    [type |-> "SCHEMA", stream |-> stream, conforms |-> TRUE, builds |-> builds]

TableName(stream) == config.table_prefix \o stream \o config.table_suffix

\* The column schema build_schema makes of a stream's schema and of the key
\* properties it is given (None when the caller passes none).
BuiltSchema(schema, key_props) == [schema |-> schema, key_properties |-> key_props]

Call(op, table, data, mode, schema) ==
    [op |-> op, table |-> table, data |-> data, mode |-> mode,
     schema |-> schema, at |-> now]

Raise(exc) == pc' = "failed" /\ error' = exc

\* json.dumps(st) raises TypeError when st holds a Decimal.
Serializable(st) == Len(st) = 1

\* main hands each yielded state to emit_state: None writes nothing, a
\* state that json.dumps cannot write raises TypeError out of main before
\* anything is written, any other is written; goto is where the run goes
\* on when emit_state returns.
emit_state(st, goto) ==
    IF st = None
    THEN stdout' = stdout /\ pc' = goto /\ error' = error
    ELSE IF ~Serializable(st)
    THEN stdout' = stdout /\ Raise("TypeError")
    ELSE stdout' = Append(stdout, st) /\ pc' = goto /\ error' = error

Init ==
    /\ config \in [truncate : BOOLEAN, stream_data : BOOLEAN,
                   forced_fulltables : ForcedChoices,
                   table_prefix : Prefixes, table_suffix : Suffixes,
                   validate_records : BOOLEAN]
    /\ bq_dataset \in BOOLEAN
    /\ bq_tables \in ExistingChoices
    /\ pc = "main"
    /\ error = ""
    /\ lines = <<>>
    /\ state = None
    /\ schemas = <<>>
    /\ key_properties = <<>>
    /\ tables = <<>>
    /\ rows = <<>>
    /\ errors = <<>>
    /\ todo = <<>>
    /\ log = <<>>
    /\ now = 0
    /\ stdout = <<>>
    /\ invocation = None
    /\ returned = None

(***************************************************************************)
(* main: ensure_dataset, then the check on stream_data and truncate, then  *)
(* the chosen generator is created.                                        *)
(***************************************************************************)
\* Mutant of Main: the check on stream_data and truncate is missing.
MainWithoutCheck ==
    /\ pc = "main"
    /\ bq_dataset' = TRUE
    /\ pc' = "lines"
    /\ error' = error
    /\ UNCHANGED <<invocation, returned, config, bq_tables, lines, locals, todo, log, now, stdout>>

Main ==
    /\ pc = "main"
    /\ bq_dataset' = TRUE
    /\ IF config.stream_data /\ config.truncate
       THEN Raise("NotImplementedError")
       ELSE pc' = "lines" /\ error' = error
    /\ UNCHANGED <<invocation, returned, config, bq_tables, lines, locals, todo, log, now, stdout>>

Reading(streaming) ==
    /\ pc = "lines"
    /\ config.stream_data = streaming
    /\ Len(lines) < MaxLines

(***************************************************************************)
(* persist_lines_job                                                       *)
(***************************************************************************)
JobParseError ==
    /\ Reading(FALSE)
    /\ lines' = Append(lines, Msg("MALFORMED", "", TRUE))
    /\ Raise("JSONDecodeError")
    /\ UNCHANGED <<invocation, returned, config, bq_dataset, bq_tables, locals, todo, log, now, stdout>>

\* Mutant of JobSchemaMessage: a repeated SCHEMA message registers again.
JobSchemaReplaces(stream, builds) ==
    /\ Reading(FALSE)
    /\ lines' = Append(lines, SchemaMsg(stream, builds))
    /\ LET table_name == TableName(stream)
           n == Len(lines) + 1
       IN  /\ schemas' = Put(schemas, table_name, n)
           /\ key_properties' = Put(key_properties, table_name, n)
           /\ rows' = Put(rows, table_name, <<>>)
           /\ errors' = Put(errors, table_name, "None")
    /\ UNCHANGED <<invocation, returned, config, bq_dataset, bq_tables, pc, error, state, tables,
                   todo, log, now, stdout>>

JobSchemaMessage(stream, builds) ==
    /\ Reading(FALSE)
    /\ lines' = Append(lines, SchemaMsg(stream, builds))
    /\ LET table_name == TableName(stream)
           n == Len(lines) + 1
       IN  IF Has(rows, table_name)
           THEN UNCHANGED <<schemas, key_properties, rows, errors>>
           ELSE /\ schemas' = Put(schemas, table_name, n)
                /\ key_properties' = Put(key_properties, table_name, n)
                /\ rows' = Put(rows, table_name, <<>>)
                /\ errors' = Put(errors, table_name, "None")
    /\ UNCHANGED <<invocation, returned, config, bq_dataset, bq_tables, pc, error, state, tables,
                   todo, log, now, stdout>>

\* Mutant of JobRecordMessage: each write replaces the spool's contents.
JobRecordOverwritesSpool(stream, conforms) ==
    /\ Reading(FALSE)
    /\ lines' = Append(lines, Msg("RECORD", stream, conforms))
    /\ LET table_name == TableName(stream)
           n == Len(lines) + 1
       IN  IF ~Has(schemas, table_name)
           THEN Raise("SchemaNotFoundException") /\ UNCHANGED <<rows, state>>
           ELSE IF config.validate_records /\ ~conforms
           THEN Raise("ValidationError") /\ UNCHANGED <<rows, state>>
           ELSE /\ rows' = Put(rows, table_name, <<n>>)
                /\ state' = None
                /\ UNCHANGED <<pc, error>>
    /\ UNCHANGED <<invocation, returned, config, bq_dataset, bq_tables, schemas, key_properties,
                   tables, errors, todo, log, now, stdout>>

\* Mutant of JobRecordMessage: a record leaves the pending state as it is.
JobRecordKeepsState(stream, conforms) ==
    /\ Reading(FALSE)
    /\ lines' = Append(lines, Msg("RECORD", stream, conforms))
    /\ LET table_name == TableName(stream)
           n == Len(lines) + 1
       IN  IF ~Has(schemas, table_name)
           THEN Raise("SchemaNotFoundException") /\ UNCHANGED <<rows, state>>
           ELSE IF config.validate_records /\ ~conforms
           THEN Raise("ValidationError") /\ UNCHANGED <<rows, state>>
           ELSE /\ rows' = Put(rows, table_name, Append(Get(rows, table_name), n))
                /\ state' = state
                /\ UNCHANGED <<pc, error>>
    /\ UNCHANGED <<invocation, returned, config, bq_dataset, bq_tables, schemas, key_properties,
                   tables, errors, todo, log, now, stdout>>

\* Mutant of JobRecordMessage: each record is loaded as soon as it is read.
JobRecordLoadsAtOnce(stream, conforms) ==
    /\ Reading(FALSE)
    /\ lines' = Append(lines, Msg("RECORD", stream, conforms))
    /\ LET table_name == TableName(stream)
           n == Len(lines) + 1
       IN  IF ~Has(schemas, table_name)
           THEN Raise("SchemaNotFoundException") /\ UNCHANGED <<rows, state, log>>
           ELSE IF config.validate_records /\ ~conforms
           THEN Raise("ValidationError") /\ UNCHANGED <<rows, state, log>>
           ELSE /\ rows' = Put(rows, table_name, Append(Get(rows, table_name), n))
                /\ log' = Append(log, Call("load_table_from_file", table_name, <<n>>,
                                           "WRITE_APPEND", None))
                /\ state' = None
                /\ UNCHANGED <<pc, error>>
    /\ UNCHANGED <<invocation, returned, config, bq_dataset, bq_tables, schemas, key_properties,
                   tables, errors, todo, now, stdout>>

JobRecordMessage(stream, conforms) ==
    /\ Reading(FALSE)
    /\ lines' = Append(lines, Msg("RECORD", stream, conforms))
    /\ LET table_name == TableName(stream)
           n == Len(lines) + 1
       IN  IF ~Has(schemas, table_name)
           THEN Raise("SchemaNotFoundException") /\ UNCHANGED <<rows, state>>
           ELSE IF config.validate_records /\ ~conforms
           THEN Raise("ValidationError") /\ UNCHANGED <<rows, state>>
           ELSE /\ rows' = Put(rows, table_name, Append(Get(rows, table_name), n))
                /\ state' = None
                /\ UNCHANGED <<pc, error>>
    /\ UNCHANGED <<invocation, returned, config, bq_dataset, bq_tables, schemas, key_properties,
                   tables, errors, todo, log, now, stdout>>

\* What filter_schema raises when it cannot project a record.
ProjectionErrors == {"ValueError", "TypeError"}

\* A RECORD message whose record filter_schema fails on: the exception
\* leaves the generator after the schema lookup and the validation.
JobRecordProjectionError(stream, conforms, exc) ==
    /\ Reading(FALSE)
    /\ lines' = Append(lines, Msg("RECORD", stream, conforms))
    /\ Has(schemas, TableName(stream))
    /\ ~(config.validate_records /\ ~conforms)
    /\ Raise(exc)
    /\ UNCHANGED <<invocation, returned, config, bq_dataset, bq_tables, locals, todo, log, now, stdout>>

JobStateMessage(value) ==
    /\ Reading(FALSE)
    /\ lines' = Append(lines, StateMsg(value))
    /\ state' = value
    /\ UNCHANGED <<invocation, returned, config, bq_dataset, bq_tables, pc, error, schemas,
                   key_properties, tables, rows, errors, todo, log, now, stdout>>

JobInvalidMessage ==
    /\ Reading(FALSE)
    /\ lines' = Append(lines, Msg("OTHER", "", TRUE))
    /\ Raise("InvalidSingerMessage")
    /\ UNCHANGED <<invocation, returned, config, bq_dataset, bq_tables, locals, todo, log, now, stdout>>

\* Mutant of JobEndOfLines: tables whose spool is empty are not loaded.
JobEndOfLinesSkipsEmpty ==
    /\ pc = "lines"
    /\ ~config.stream_data
    /\ pc' = "load"
    /\ todo' = LET HasRows(key) == Get(rows, key) # <<>>
               IN  SelectSeq(Keys(rows), HasRows)
    /\ UNCHANGED <<invocation, returned, config, bq_dataset, bq_tables, error, lines, locals, log,
                   now, stdout>>

JobEndOfLines ==
    /\ pc = "lines"
    /\ ~config.stream_data
    /\ pc' = "load"
    /\ todo' = Keys(rows)
    /\ UNCHANGED <<invocation, returned, config, bq_dataset, bq_tables, error, lines, locals, log,
                   now, stdout>>

\* Mutant of WriteDisposition: the forced_fulltables list is not consulted.
WriteDispositionGlobalOnly(table) ==
    IF config.truncate THEN "WRITE_TRUNCATE" ELSE "WRITE_APPEND"

\* load_config.write_disposition; left unset, a load job appends.
WriteDisposition(table) ==
    IF config.truncate \/ table \in config.forced_fulltables
    THEN "WRITE_TRUNCATE"
    ELSE "WRITE_APPEND"

\* Mutant of JobLoadTable: a failed load is logged and the loop goes on.
JobLoadTableSwallows(ok) ==
    /\ pc = "load"
    /\ todo # <<>>
    /\ LET table == Head(todo)
           load_schema == BuiltSchema(Get(schemas, table),
                                      <<Get(key_properties, table)>>)
           job == Call("load_table_from_file", table, Get(rows, table),
                       WriteDisposition(table), load_schema)
           builds == lines[Get(schemas, table)].builds
       IN  IF builds \in BuildErrors
           THEN /\ ok
                /\ Raise(builds)
                /\ UNCHANGED <<log, bq_tables, todo>>
           ELSE IF ok
           THEN /\ log' = log \o <<job, Call("load_done", table, Get(rows, table),
                                             WriteDisposition(table), load_schema)>>
                /\ bq_tables' = bq_tables \cup {table}
                /\ todo' = Tail(todo)
                /\ UNCHANGED <<pc, error>>
           ELSE /\ log' = Append(log, job)
                /\ bq_tables' = bq_tables
                /\ todo' = Tail(todo)
                /\ UNCHANGED <<pc, error>>
    /\ UNCHANGED <<invocation, returned, config, bq_dataset, lines, locals, now, stdout>>

JobLoadTable(ok) ==
    /\ pc = "load"
    /\ todo # <<>>
    /\ LET table == Head(todo)
           load_schema == BuiltSchema(Get(schemas, table),
                                      <<Get(key_properties, table)>>)
           job == Call("load_table_from_file", table, Get(rows, table),
                       WriteDisposition(table), load_schema)
           builds == lines[Get(schemas, table)].builds
       IN  IF builds \in BuildErrors
           THEN /\ ok
                /\ Raise(builds)
                /\ UNCHANGED <<log, bq_tables, todo>>
           ELSE IF ok
           THEN /\ log' = log \o <<job, Call("load_done", table, Get(rows, table),
                                             WriteDisposition(table), load_schema)>>
                /\ bq_tables' = bq_tables \cup {table}
                /\ todo' = Tail(todo)
                /\ UNCHANGED <<pc, error>>
           ELSE /\ log' = Append(log, job)
                /\ Raise("GoogleAPICallError")
                /\ UNCHANGED <<bq_tables, todo>>
    /\ UNCHANGED <<invocation, returned, config, bq_dataset, lines, locals, now, stdout>>

\* Mutant of JobYieldState: the state is yielded inside the loop over tables.
JobYieldStateEarly ==
    /\ pc = "load"
    /\ emit_state(state, "done")
    /\ UNCHANGED <<invocation, returned, config, bq_dataset, bq_tables, lines, locals, todo,
                   log, now>>

JobYieldState ==
    /\ pc = "load"
    /\ todo = <<>>
    /\ emit_state(state, "done")
    /\ UNCHANGED <<invocation, returned, config, bq_dataset, bq_tables, lines, locals, todo,
                   log, now>>

Job ==
    \/ JobParseError
    \/ \E stream \in Streams : \E builds \in BuildResults : JobSchemaMessage(stream, builds)
    \/ \E stream \in Streams, conforms \in BOOLEAN : JobRecordMessage(stream, conforms)
    \/ \E stream \in Streams, conforms \in BOOLEAN, exc \in ProjectionErrors :
          JobRecordProjectionError(stream, conforms, exc)
    \/ \E value \in StateValues(Len(lines) + 1) : JobStateMessage(value)
    \/ JobInvalidMessage
    \/ JobEndOfLines
    \/ \E ok \in BOOLEAN : JobLoadTable(ok)
    \/ JobYieldState

(***************************************************************************)
(* persist_lines_stream                                                    *)
(***************************************************************************)
StreamParseError ==
    /\ Reading(TRUE)
    /\ lines' = Append(lines, Msg("MALFORMED", "", TRUE))
    /\ Raise("JSONDecodeError")
    /\ UNCHANGED <<invocation, returned, config, bq_dataset, bq_tables, locals, todo, log, now, stdout>>

\* Mutant of sleep: the cool-down is skipped.
sleep_skipped(seconds) == now' = now

\* time.sleep: blocks the run for the given number of seconds.
sleep(seconds) == now' = now + seconds

\* client.get_table: raises NotFound iff the table is absent.
get_table(table) == IF table \in bq_tables THEN "found" ELSE "NotFound"

\* Mutant of table_exists: the answer is inverted.
table_exists_inverted(table_ref) == get_table(table_ref) = "NotFound"

\* tools.table_exists: False iff client.get_table raises NotFound.
table_exists(table_ref) == get_table(table_ref) # "NotFound"

StreamSchemaMessage(stream, builds) ==
    /\ Reading(TRUE)
    /\ lines' = Append(lines, SchemaMsg(stream, builds))
    /\ LET table_name == TableName(stream)
           n == Len(lines) + 1
           table == BuiltSchema(n, None)
           probe == Call("get_table", table_name, n, get_table(table_name), None)
       IN  /\ schemas' = Put(schemas, table_name, n)
           /\ key_properties' = Put(key_properties, table_name, n)
           /\ IF builds \in BuildErrors
              THEN /\ Raise(builds)
                   /\ UNCHANGED <<tables, rows, errors, log, bq_tables, now>>
              ELSE /\ tables' = Put(tables, table_name,
                                    [ref |-> table_name, schema |-> table])
                   /\ rows' = Put(rows, table_name, 0)
                   /\ errors' = Put(errors, table_name, "None")
                   /\ UNCHANGED <<pc, error>>
                   /\ IF ~table_exists(table_name)
                      THEN /\ log' = log \o <<probe,
                                              Call("create_table", table_name, n, "", table)>>
                           /\ bq_tables' = bq_tables \cup {table_name}
                           /\ now' = now
                      ELSE IF config.truncate \/ table_name \in config.forced_fulltables
                      THEN /\ log' = log \o <<probe,
                                              Call("delete_table", table_name, n, "", table),
                                              Call("create_table", table_name, n, "", table)>>
                           /\ bq_tables' = (bq_tables \ {table_name}) \cup {table_name}
                           /\ sleep(FIVE_MINUTES)
                      ELSE /\ log' = Append(log, probe)
                           /\ UNCHANGED <<bq_tables, now>>
    /\ UNCHANGED <<invocation, returned, config, bq_dataset, state, todo, stdout>>

\* Mutant of StreamRecordMessage: a record with no schema is skipped.
StreamRecordSkipsUnknown(stream, conforms, result) ==
    /\ Reading(TRUE)
    /\ lines' = Append(lines, Msg("RECORD", stream, conforms))
    /\ LET table_name == TableName(stream)
           n == Len(lines) + 1
       IN  IF ~Has(schemas, table_name)
           THEN /\ result = "[]"
                /\ UNCHANGED <<pc, error, rows, errors, state, log>>
           ELSE IF config.validate_records /\ ~conforms
           THEN /\ Raise("ValidationError")
                /\ result = "[]"
                /\ UNCHANGED <<rows, errors, state, log>>
           ELSE /\ log' = Append(log, Call("insert_rows", Get(tables, table_name).ref,
                                           n, result, Get(tables, table_name).schema))
                /\ IF result = "raise"
                   THEN Raise("Exception") /\ UNCHANGED <<rows, errors, state>>
                   ELSE /\ errors' = Put(errors, stream, result)
                        /\ IF ~Has(rows, stream)
                           THEN Raise("KeyError") /\ UNCHANGED <<rows, state>>
                           ELSE /\ rows' = Put(rows, stream, Get(rows, stream) + 1)
                                /\ state' = None
                                /\ UNCHANGED <<pc, error>>
    /\ UNCHANGED <<invocation, returned, config, bq_dataset, bq_tables, schemas, key_properties,
                   tables, todo, now, stdout>>

\* Mutant of StreamRecordMessage: the record is not validated.
StreamRecordUnvalidated(stream, conforms, result) ==
    /\ Reading(TRUE)
    /\ lines' = Append(lines, Msg("RECORD", stream, conforms))
    /\ LET table_name == TableName(stream)
           n == Len(lines) + 1
       IN  IF ~Has(schemas, table_name)
           THEN /\ Raise("SchemaNotFoundException")
                /\ result = "[]"
                /\ UNCHANGED <<rows, errors, state, log>>
           ELSE /\ log' = Append(log, Call("insert_rows", Get(tables, table_name).ref,
                                           n, result, Get(tables, table_name).schema))
                /\ IF result = "raise"
                   THEN Raise("Exception") /\ UNCHANGED <<rows, errors, state>>
                   ELSE /\ errors' = Put(errors, stream, result)
                        /\ IF ~Has(rows, stream)
                           THEN Raise("KeyError") /\ UNCHANGED <<rows, state>>
                           ELSE /\ rows' = Put(rows, stream, Get(rows, stream) + 1)
                                /\ state' = None
                                /\ UNCHANGED <<pc, error>>
    /\ UNCHANGED <<invocation, returned, config, bq_dataset, bq_tables, schemas, key_properties,
                   tables, todo, now, stdout>>

\* result: what client.insert_rows does with the row, "[]" (no per-row error),
\* "errors" (a non-empty list of per-row errors) or "raise" (an exception).
StreamRecordMessage(stream, conforms, result) ==
    /\ Reading(TRUE)
    /\ lines' = Append(lines, Msg("RECORD", stream, conforms))
    /\ LET table_name == TableName(stream)
           n == Len(lines) + 1
       IN  IF ~Has(schemas, table_name)
           THEN /\ Raise("SchemaNotFoundException")
                /\ result = "[]"
                /\ UNCHANGED <<rows, errors, state, log>>
           ELSE IF config.validate_records /\ ~conforms
           THEN /\ Raise("ValidationError")
                /\ result = "[]"
                /\ UNCHANGED <<rows, errors, state, log>>
           ELSE /\ log' = Append(log, Call("insert_rows", Get(tables, table_name).ref,
                                           n, result, Get(tables, table_name).schema))
                /\ IF result = "raise"
                   THEN Raise("Exception") /\ UNCHANGED <<rows, errors, state>>
                   ELSE /\ errors' = Put(errors, stream, result)
                        /\ IF ~Has(rows, stream)
                           THEN Raise("KeyError") /\ UNCHANGED <<rows, state>>
                           ELSE /\ rows' = Put(rows, stream, Get(rows, stream) + 1)
                                /\ state' = None
                                /\ UNCHANGED <<pc, error>>
    /\ UNCHANGED <<invocation, returned, config, bq_dataset, bq_tables, schemas, key_properties,
                   tables, todo, now, stdout>>

\* A RECORD message whose record filter_schema fails on: no insert is made.
StreamRecordProjectionError(stream, conforms, exc) ==
    /\ Reading(TRUE)
    /\ lines' = Append(lines, Msg("RECORD", stream, conforms))
    /\ Has(schemas, TableName(stream))
    /\ ~(config.validate_records /\ ~conforms)
    /\ Raise(exc)
    /\ UNCHANGED <<invocation, returned, config, bq_dataset, bq_tables, locals, todo, log, now, stdout>>

StreamStateMessage(value) ==
    /\ Reading(TRUE)
    /\ lines' = Append(lines, StateMsg(value))
    /\ state' = value
    /\ UNCHANGED <<invocation, returned, config, bq_dataset, bq_tables, pc, error, schemas,
                   key_properties, tables, rows, errors, todo, log, now, stdout>>

StreamInvalidMessage ==
    /\ Reading(TRUE)
    /\ lines' = Append(lines, Msg("OTHER", "", TRUE))
    /\ Raise("InvalidSingerMessage")
    /\ UNCHANGED <<invocation, returned, config, bq_dataset, bq_tables, locals, todo, log, now, stdout>>

StreamEndOfLines ==
    /\ pc = "lines"
    /\ config.stream_data
    /\ pc' = "report"
    /\ todo' = Keys(errors)
    /\ UNCHANGED <<invocation, returned, config, bq_dataset, bq_tables, error, lines, locals, log,
                   now, stdout>>

\* One turn of "for table in errors.keys()": an entry with errors is logged,
\* any other yields state to main, which hands it to emit_state; when
\* emit_state raises the run ends inside the loop.
StreamReportTable ==
    /\ pc = "report"
    /\ todo # <<>>
    /\ LET table == Head(todo)
       IN  IF Get(errors, table) = "errors"
           THEN UNCHANGED <<stdout, pc, error>>
           ELSE emit_state(state, "report")
    /\ todo' = IF pc' = "failed" THEN todo ELSE Tail(todo)
    /\ UNCHANGED <<invocation, returned, config, bq_dataset, bq_tables, lines, locals,
                   log, now>>

StreamReturn ==
    /\ pc = "report"
    /\ todo = <<>>
    /\ pc' = "done"
    /\ UNCHANGED <<invocation, returned, config, bq_dataset, bq_tables, error, lines, locals, todo,
                   log, now, stdout>>

InsertResults == {"[]", "errors", "raise"}

Stream ==
    \/ StreamParseError
    \/ \E stream \in Streams : \E builds \in BuildResults : StreamSchemaMessage(stream, builds)
    \/ \E stream \in Streams, conforms \in BOOLEAN, result \in InsertResults :
          StreamRecordMessage(stream, conforms, result)
    \/ \E stream \in Streams, conforms \in BOOLEAN, exc \in ProjectionErrors :
          StreamRecordProjectionError(stream, conforms, exc)
    \/ \E value \in StateValues(Len(lines) + 1) : StreamStateMessage(value)
    \/ StreamInvalidMessage
    \/ StreamEndOfLines
    \/ StreamReportTable
    \/ StreamReturn

Next ==
    \/ Main
    \/ Job
    \/ Stream

Spec == Init /\ [][Next]_vars

(***************************************************************************)
(* Vocabulary of the properties, read off the input history (lines), the   *)
(* client calls (log) and the output (stdout).                             *)
(***************************************************************************)
Range(q) == {q[i] : i \in 1..Len(q)}

Ascending(q) == \A i, j \in 1..Len(q) : i < j => q[i] < q[j]

Batch == ~config.stream_data

Streaming == config.stream_data

IsLoad(e) == e.op = "load_table_from_file"

IsLoadDone(e) == e.op = "load_done"

IsInsert(e) == e.op = "insert_rows"

Loads == SelectSeq(log, IsLoad)

Inserts == SelectSeq(log, IsInsert)

\* The pending checkpoint the input read so far calls for.
ExpectedState ==
    LET marks == {i \in 1..Len(lines) : lines[i].type \in {"STATE", "RECORD"}}
    IN  IF marks = {} THEN None
        ELSE LET last == CHOOSE i \in marks : \A j \in marks : j <= i
             IN  IF lines[last].type = "STATE" THEN lines[last].value ELSE None

\* The input has been read to its end (the loop over lines was left normally):
\* the run is in, or past, the loop that follows the input, or it failed in
\* that loop (todo is empty until the loop starts, and a step that fails in
\* it leaves its key in todo), or it failed when the state was emitted (a
\* TypeError on a line is that of a RECORD, which leaves no pending state).
InputEnded ==
    \/ pc \in {"load", "report", "done"}
    \/ pc = "failed" /\ todo # <<>>
    \/ pc = "failed" /\ error = "TypeError" /\ ExpectedState # None

\* Line i is a SCHEMA message of the stream that table is the table of.
SchemaLineFor(i, table) ==
    lines[i].type = "SCHEMA" /\ TableName(lines[i].stream) = table

RegisteredAt(table) ==
    {i \in 1..Len(lines) : SchemaLineFor(i, table)}

\* Line i is a RECORD message of a stream with no SCHEMA message before it.
Unannounced(i) ==
    /\ lines[i].type = "RECORD"
    /\ \A j \in 1..(i - 1) :
          ~(lines[j].type = "SCHEMA" /\ lines[j].stream = lines[i].stream)

\* Line i is a RECORD message that got as far as the spool or the insert call.
Handed(i) ==
    /\ lines[i].type = "RECORD"
    /\ ~(/\ i = Len(lines)
         /\ pc = "failed"
         /\ ~InputEnded
         /\ error \in {"SchemaNotFoundException", "ValidationError"} \cup ProjectionErrors)

RecordLinesOf(table) ==
    {i \in 1..Len(lines) : Handed(i) /\ TableName(lines[i].stream) = table}

AllLoadsDone ==
    \A i \in 1..Len(rows) :
        /\ \E j \in 1..Len(log) : IsLoad(log[j]) /\ log[j].table = rows[i].k
        /\ \E j \in 1..Len(log) : IsLoadDone(log[j]) /\ log[j].table = rows[i].k

(***************************************************************************)
(* C1: under the batch strategy nothing is yielded or written to stdout    *)
(* before the load of every registered table has been called and has       *)
(* completed, and the state is yielded at one point only; a run that ends  *)
(* because emit_state could not write the yielded state has made every     *)
(* load too and has written nothing.                                       *)
(***************************************************************************)
C1_CheckpointAfterAllLoads ==
    Batch =>
        /\ (pc = "done" \/ stdout # <<>>) => AllLoadsDone
        /\ (pc = "failed" /\ error = "TypeError" /\ ExpectedState # None) =>
              AllLoadsDone /\ stdout = <<>>
        /\ stdout # <<>> => pc = "done"
        /\ Len(stdout) <= 1

C1_Witness ==
    /\ Batch
    /\ stdout # <<>>
    /\ Len(rows) = 2
    /\ \E i \in 1..Len(rows) : rows[i].v # <<>>

(***************************************************************************)
(* C2: while the run has not failed, state is the value of the latest      *)
(* STATE message when no RECORD message followed it and None otherwise;    *)
(* whatever is written to stdout is that value as it stands once the input *)
(* has ended, and a None state writes nothing; a state that json.dumps     *)
(* cannot write is never on stdout.                                        *)
(***************************************************************************)
C2_PendingCheckpoint ==
    /\ pc \in {"lines", "load", "report", "done"} => state = ExpectedState
    /\ \A i \in 1..Len(stdout) :
          /\ InputEnded
          /\ stdout[i] = ExpectedState
          /\ stdout[i] # None
          /\ Serializable(stdout[i])
    /\ (InputEnded /\ ExpectedState = None) => stdout = <<>>

C2_Witness ==
    /\ stdout # <<>>
    /\ \E i, j \in 1..Len(lines) :
          /\ i < j
          /\ lines[i].type = "STATE"
          /\ lines[j].type = "RECORD"
          /\ lines[Len(lines)].type = "STATE"
          /\ j < Len(lines)

(***************************************************************************)
(* C3: under the streaming strategy a checkpoint is written to stdout only *)
(* if every insert_rows call of the run returned no per-row error.         *)
(***************************************************************************)
C3_CheckpointOnlyAfterCleanInserts ==
    (Streaming /\ stdout # <<>>) =>
        \A j \in 1..Len(log) : IsInsert(log[j]) => log[j].mode = "[]"

(***************************************************************************)
(* C4: a RECORD message of a stream with no earlier SCHEMA message ends    *)
(* the run with SchemaNotFoundException: it is the last line read, it is   *)
(* in no spool and in no insert call, and nothing is written to stdout.    *)
(***************************************************************************)
C4_SchemaNotFound ==
    \A i \in 1..Len(lines) :
        Unannounced(i) =>
            /\ pc = "failed"
            /\ error = "SchemaNotFoundException"
            /\ i = Len(lines)
            /\ stdout = <<>>
            /\ \A j \in 1..Len(log) : ~(IsInsert(log[j]) /\ log[j].data = i)
            /\ Batch => \A k \in 1..Len(rows) : i \notin Range(rows[k].v)

C4_Witness ==
    /\ Len(lines) >= 3
    /\ Unannounced(Len(lines))
    /\ lines[1].type = "SCHEMA"
    /\ lines[2].type = "STATE"

(***************************************************************************)
(* C5: under the batch strategy the load calls are issued for registered   *)
(* tables only, at most one per table, in the order of the tables' first   *)
(* SCHEMA messages, none before the input has ended; a run that ends       *)
(* without error has issued one for every registered table.                *)
(***************************************************************************)
C5_OneLoadPerTableInOrder ==
    Batch =>
        /\ \A k \in 1..Len(Loads) : RegisteredAt(Loads[k].table) # {}
        /\ \A k, m \in 1..Len(Loads) :
              k < m =>
                 \E i \in RegisteredAt(Loads[k].table) :
                    \A j \in RegisteredAt(Loads[m].table) : i < j
        /\ Loads # <<>> => InputEnded
        /\ pc = "done" =>
              \A i \in 1..Len(lines) :
                 lines[i].type = "SCHEMA" =>
                    \E k \in 1..Len(Loads) :
                       Loads[k].table = TableName(lines[i].stream)

C5_Witness ==
    /\ Batch
    /\ pc = "done"
    /\ Len(Loads) = 2
    /\ \E k \in 1..Len(Loads) : Loads[k].data = <<>>
    /\ Cardinality(RegisteredAt(Loads[1].table)) = 2

(***************************************************************************)
(* C6: the records a table is loaded with (batch), and the records of the  *)
(* insert calls made on a table (streaming), are the RECORD messages of    *)
(* that table's stream, each once and in input order.                      *)
(***************************************************************************)
C6_RecordsInInputOrder ==
    /\ Batch =>
          /\ \A k \in 1..Len(Loads) :
                /\ Ascending(Loads[k].data)
                /\ Range(Loads[k].data) = RecordLinesOf(Loads[k].table)
          /\ pc = "lines" =>
                \A k \in 1..Len(rows) :
                   /\ Ascending(rows[k].v)
                   /\ Range(rows[k].v) = RecordLinesOf(rows[k].k)
    /\ Streaming =>
          /\ Ascending([k \in 1..Len(Inserts) |-> Inserts[k].data])
          /\ \A k \in 1..Len(Inserts) :
                Inserts[k].data \in RecordLinesOf(Inserts[k].table)
          /\ \A i \in 1..Len(lines) :
                Handed(i) => \E k \in 1..Len(Inserts) : Inserts[k].data = i

C6_Witness ==
    /\ Batch
    /\ Len(Loads) = 2
    /\ Loads[1].data = <<4>>
    /\ Loads[2].data = <<3>>

(***************************************************************************)
(* C7: with replication_method FULL_TABLE and stream_data the run ends in  *)
(* NotImplementedError with no input line read, no call made on a table    *)
(* and nothing written to stdout.                                          *)
(***************************************************************************)
C7_TruncateWithStreamingRejected ==
    (config.stream_data /\ config.truncate /\ pc # "main") =>
        /\ pc = "failed"
        /\ error = "NotImplementedError"
        /\ lines = <<>>
        /\ log = <<>>
        /\ stdout = <<>>

C7_Witness ==
    /\ config.stream_data
    /\ config.truncate
    /\ pc = "failed"
    /\ bq_tables # {}

(***************************************************************************)
(* C8: under the batch strategy a load that fails ends the run: it is the  *)
(* last call made (no retry, no load of a later table) and nothing is      *)
(* written to stdout.                                                      *)
(***************************************************************************)
C8_LoadFailureFatal ==
    Batch =>
        \A j \in 1..Len(log) :
            (IsLoad(log[j]) /\ (j = Len(log) \/ ~IsLoadDone(log[j + 1]))) =>
                /\ pc = "failed"
                /\ error = "GoogleAPICallError"
                /\ j = Len(log)
                /\ stdout = <<>>

C8_Witness ==
    /\ Batch
    /\ pc = "failed"
    /\ error = "GoogleAPICallError"
    /\ Len(todo) = 2
    /\ state # None

(***************************************************************************)
(* C9: under the streaming strategy an insert_rows call that raises or     *)
(* returns per-row errors ends the run in error and is the last call made. *)
(***************************************************************************)
C9_InsertFailureFatal ==
    Streaming =>
        \A j \in 1..Len(log) :
            (IsInsert(log[j]) /\ log[j].mode # "[]") =>
                /\ pc = "failed"
                /\ j = Len(log)

(***************************************************************************)
(* C10: under the streaming strategy every insert call that follows the    *)
(* recreation of a table (delete_table then create_table) is made at least *)
(* FIVE_MINUTES of sleep after that create_table.                          *)
(***************************************************************************)
Recreation(j) ==
    /\ j > 1
    /\ log[j].op = "create_table"
    /\ log[j - 1].op = "delete_table"
    /\ log[j - 1].table = log[j].table

C10_NoInsertBeforeCoolDown ==
    Streaming =>
        \A j, k \in 1..Len(log) :
            (j < k /\ Recreation(j) /\ IsInsert(log[k])) =>
                log[k].at >= log[j].at + FIVE_MINUTES

C10_Witness ==
    /\ Streaming
    /\ \E j, k \in 1..Len(log) :
          /\ j < k
          /\ Recreation(j)
          /\ IsInsert(log[k])
          /\ log[k].table = log[j].table
          /\ log[k].mode = "[]"
          /\ pc = "lines"

(***************************************************************************)
(* C11: under the streaming strategy every SCHEMA message first probes the *)
(* table (get_table) and then makes exactly one of: create_table (probe    *)
(* NotFound); delete_table then create_table (probe found, and truncate or *)
(* the table name in forced_fulltables); no further call (probe found, no  *)
(* truncate asked).  create_table always follows a NotFound probe or a     *)
(* delete_table of the same table, and the table exists afterwards.        *)
(***************************************************************************)
IsTableCall(e) == e.op \in {"get_table", "create_table", "delete_table"}

SchemaCalls(i) ==
    LET OfLine(e) == IsTableCall(e) /\ e.data = i
    IN  SelectSeq(log, OfLine)

OpsOf(calls) == [k \in 1..Len(calls) |-> calls[k].op]

TruncateAsked(table) == config.truncate \/ table \in config.forced_fulltables

C11_ProbeThenCreateOrRecreate ==
    Streaming =>
        /\ \A i \in 1..Len(lines) :
              lines[i].type = "SCHEMA" =>
                 LET table == TableName(lines[i].stream)
                     calls == SchemaCalls(i)
                 IN  /\ calls # <<>>
                     /\ \A k \in 1..Len(calls) : calls[k].table = table
                     /\ calls[1].op = "get_table"
                     /\ \/ /\ calls[1].mode = "NotFound"
                           /\ OpsOf(calls) = <<"get_table", "create_table">>
                        \/ /\ calls[1].mode = "found"
                           /\ TruncateAsked(table)
                           /\ OpsOf(calls) = <<"get_table", "delete_table", "create_table">>
                        \/ /\ calls[1].mode = "found"
                           /\ ~TruncateAsked(table)
                           /\ OpsOf(calls) = <<"get_table">>
                     /\ table \in bq_tables
        /\ \A j \in 1..Len(log) :
              /\ IsTableCall(log[j]) => lines[log[j].data].type = "SCHEMA"
              /\ log[j].op = "create_table" =>
                    /\ j > 1
                    /\ log[j - 1].table = log[j].table
                    /\ \/ log[j - 1].op = "delete_table"
                       \/ log[j - 1].op = "get_table" /\ log[j - 1].mode = "NotFound"

(***************************************************************************)
(* C11, for the SCHEMA messages whose schema build_schema builds: under    *)
(* the streaming strategy every such message first probes the table        *)
(* (get_table) and then makes exactly one of: create_table (probe          *)
(* NotFound); delete_table then create_table (probe found, and truncate or *)
(* the table name in forced_fulltables); no further call (probe found, no  *)
(* truncate asked), and the table exists afterwards.  A SCHEMA message     *)
(* whose schema build_schema cannot build ends the run with build_schema's *)
(* error as the last line read, with no probe, create or delete made for   *)
(* it.  create_table always follows a NotFound probe or a delete_table of  *)
(* the same table.                                                         *)
(***************************************************************************)
C11_BuiltSchemaProbesThenCreates ==
    Streaming =>
        /\ \A i \in 1..Len(lines) :
              (lines[i].type = "SCHEMA" /\ lines[i].builds = "built") =>
                 LET table == TableName(lines[i].stream)
                     calls == SchemaCalls(i)
                 IN  /\ calls # <<>>
                     /\ \A k \in 1..Len(calls) : calls[k].table = table
                     /\ calls[1].op = "get_table"
                     /\ \/ /\ calls[1].mode = "NotFound"
                           /\ OpsOf(calls) = <<"get_table", "create_table">>
                        \/ /\ calls[1].mode = "found"
                           /\ TruncateAsked(table)
                           /\ OpsOf(calls) = <<"get_table", "delete_table", "create_table">>
                        \/ /\ calls[1].mode = "found"
                           /\ ~TruncateAsked(table)
                           /\ OpsOf(calls) = <<"get_table">>
                     /\ table \in bq_tables
        /\ \A i \in 1..Len(lines) :
              (lines[i].type = "SCHEMA" /\ lines[i].builds \in BuildErrors) =>
                 /\ i = Len(lines)
                 /\ pc = "failed"
                 /\ error = lines[i].builds
                 /\ SchemaCalls(i) = <<>>
        /\ \A j \in 1..Len(log) :
              /\ IsTableCall(log[j]) => lines[log[j].data].type = "SCHEMA"
              /\ log[j].op = "create_table" =>
                    /\ j > 1
                    /\ log[j - 1].table = log[j].table
                    /\ \/ log[j - 1].op = "delete_table"
                       \/ log[j - 1].op = "get_table" /\ log[j - 1].mode = "NotFound"

C11_Witness ==
    /\ Streaming
    /\ \E i, j, k \in 1..Len(lines) :
          /\ lines[i].type = "SCHEMA" /\ lines[j].type = "SCHEMA" /\ lines[k].type = "SCHEMA"
          /\ Len(SchemaCalls(i)) = 1
          /\ Len(SchemaCalls(j)) = 2
          /\ Len(SchemaCalls(k)) = 3
    /\ lines[Len(lines)].type = "SCHEMA"
    /\ lines[Len(lines)].builds \in BuildErrors

(***************************************************************************)
(* C12: under the batch strategy a load is made with WRITE_TRUNCATE if and *)
(* only if truncate is set or the table's name (prefix + stream + suffix)  *)
(* is in forced_fulltables; every other load appends.                      *)
(***************************************************************************)
C12_OverwriteIffTruncateOrForced ==
    Batch =>
        \A k \in 1..Len(Loads) :
            /\ Loads[k].mode \in {"WRITE_TRUNCATE", "WRITE_APPEND"}
            /\ Loads[k].mode = "WRITE_TRUNCATE" <=>
                  (config.truncate \/ Loads[k].table \in config.forced_fulltables)
            /\ \E i \in 1..Len(lines) :
                  /\ lines[i].type = "SCHEMA"
                  /\ Loads[k].table =
                        config.table_prefix \o lines[i].stream \o config.table_suffix

C12_Witness ==
    /\ Batch
    /\ ~config.truncate
    /\ config.table_prefix = "p"
    /\ Len(Loads) = 2
    /\ Loads[1].mode = "WRITE_APPEND"
    /\ Loads[2].mode = "WRITE_TRUNCATE"

(***************************************************************************)
(* C13: under the batch strategy a SCHEMA message for a registered table   *)
(* changes nothing: the schema and key properties kept for a table are     *)
(* those of its first SCHEMA message, which are also what the table's load *)
(* schema is built from (a load is made only of a table whose first schema *)
(* builds, and a build error in the loop over tables is that of the first  *)
(* schema), and a repeated SCHEMA message leaves the spools and the        *)
(* pending state as the records and STATE messages made them.              *)
(***************************************************************************)
FirstSchemaLine(table) ==
    CHOOSE i \in RegisteredAt(table) : \A j \in RegisteredAt(table) : i <= j

RepeatedSchema(i) ==
    /\ lines[i].type = "SCHEMA"
    /\ \E j \in 1..(i - 1) : SchemaLineFor(j, TableName(lines[i].stream))

C13_FirstSchemaWins ==
    Batch =>
        /\ \A k \in 1..Len(rows) :
              /\ RegisteredAt(rows[k].k) # {}
              /\ Get(schemas, rows[k].k) = FirstSchemaLine(rows[k].k)
              /\ Get(key_properties, rows[k].k) = FirstSchemaLine(rows[k].k)
        /\ \A k \in 1..Len(Loads) :
              /\ Loads[k].schema = BuiltSchema(FirstSchemaLine(Loads[k].table),
                                               <<FirstSchemaLine(Loads[k].table)>>)
              /\ lines[FirstSchemaLine(Loads[k].table)].builds = "built"
        /\ (pc = "failed" /\ InputEnded /\ error \in BuildErrors) =>
              lines[FirstSchemaLine(Head(todo))].builds = error
        /\ (pc = "lines" /\ lines # <<>> /\ RepeatedSchema(Len(lines))) =>
              /\ state = ExpectedState
              /\ \A k \in 1..Len(rows) :
                    /\ Ascending(rows[k].v)
                    /\ Range(rows[k].v) = RecordLinesOf(rows[k].k)

C13_Witness ==
    /\ Batch
    /\ pc = "lines"
    /\ Len(lines) = 4
    /\ RepeatedSchema(4)
    /\ lines[2].type = "RECORD"
    /\ lines[3].type = "STATE"
    /\ state # None

(***************************************************************************)
(* C21: with validate_records set, a record that does not conform to the   *)
(* schema registered for its stream ends the run with ValidationError at   *)
(* that line, before it is spooled or inserted, nothing is read after it   *)
(* and nothing is written to stdout; without validate_records no run ends  *)
(* with ValidationError.                                                   *)
(***************************************************************************)
Rejected(i) ==
    /\ lines[i].type = "RECORD"
    /\ ~Unannounced(i)
    /\ ~lines[i].conforms

NeverHanded(i) ==
    /\ Batch => /\ log = <<>>
                /\ \A k \in 1..Len(rows) : i \notin Range(rows[k].v)
    /\ Streaming => \A j \in 1..Len(log) : IsInsert(log[j]) => log[j].data # i

C21_ValidationFailureFatal ==
    /\ \A i \in 1..Len(lines) :
          (config.validate_records /\ Rejected(i)) =>
              /\ i = Len(lines)
              /\ pc = "failed"
              /\ error = "ValidationError"
              /\ NeverHanded(i)
              /\ stdout = <<>>
    /\ error = "ValidationError" =>
          /\ config.validate_records
          /\ lines # <<>>
          /\ Rejected(Len(lines))

C21_Witness ==
    /\ Streaming
    /\ error = "ValidationError"
    /\ Len(Inserts) = 1
    /\ \E i \in 1..Len(lines) : lines[i].type = "STATE"

(***************************************************************************)
(* C22: a run that ends without an error and with a pending state that is  *)
(* not None has written that state to stdout exactly once, under either    *)
(* strategy and whatever the number of registered tables.                  *)
(***************************************************************************)
C22_CheckpointEmittedOnce ==
    (pc = "done" /\ state # None) => stdout = <<state>>

(***************************************************************************)
(* C23: under the streaming strategy, whatever the prefix and suffix, a    *)
(* record of a stream with a registered schema whose insert_rows call      *)
(* returns does not end the run, and the count kept for a table is the     *)
(* number of insert_rows calls that returned for that table since its      *)
(* latest SCHEMA message.                                                  *)
(***************************************************************************)
\* The insert_rows calls on table that returned, made for lines after line n.
ReturnedInsertsSince(table, n) ==
    {j \in 1..Len(log) :
        /\ IsInsert(log[j])
        /\ log[j].table = table
        /\ log[j].mode # "raise"
        /\ log[j].data > n}

\* The latest SCHEMA message that registered table (its schema was built).
LatestSchemaLine(table) ==
    LET built == {i \in RegisteredAt(table) : lines[i].builds = "built"}
    IN  CHOOSE i \in built : \A j \in built : j <= i

C23_CountPerTable ==
    Streaming =>
        /\ ~(/\ pc = "failed"
             /\ error = "KeyError"
             /\ lines[Len(lines)].type = "RECORD")
        /\ \A k \in 1..Len(rows) :
              Get(rows, rows[k].k) =
                  Cardinality(ReturnedInsertsSince(rows[k].k, LatestSchemaLine(rows[k].k)))

(***************************************************************************)
(* C24: under the batch strategy every step taken before the input has     *)
(* been read to its end, the step that fails on a line included, leaves    *)
(* the log of client calls empty, stdout empty and the warehouse tables as *)
(* they were: a run that fails on a line has loaded nothing and emitted no *)
(* state.                                                                  *)
(***************************************************************************)
C24_NoLoadBeforeEndOfInput ==
    [][(Batch /\ pc \in {"main", "lines"}) =>
          /\ log' = <<>>
          /\ stdout' = <<>>
          /\ bq_tables' = bq_tables]_vars

C24_Witness ==
    /\ Batch
    /\ pc = "failed"
    /\ error = "ValidationError"
    /\ Len(lines) = 4
    /\ \E k \in 1..Len(rows) : rows[k].v # <<>>
    /\ \E i \in 1..Len(lines) : lines[i].type = "STATE"

(***************************************************************************)
(* C25: under the streaming strategy no delete_table is called on a table  *)
(* after an insert_rows call on it has returned without per-row errors in  *)
(* the same run, also when the stream's SCHEMA message comes again and the *)
(* table is in forced_fulltables.                                          *)
(***************************************************************************)
C25_NoDeleteAfterInsert ==
    Streaming =>
        \A j, k \in 1..Len(log) :
            (j < k /\ IsInsert(log[j]) /\ log[j].mode = "[]")
                => ~(log[k].op = "delete_table" /\ log[k].table = log[j].table)

(***************************************************************************)
(* schema.py.  The functions are operators; a second specification,        *)
(* SpecSchema, draws one call with its arguments and applies the function. *)
(*                                                                         *)
(* A JSON Schema node is a record holding the keys the dict holds; its     *)
(* 'type' is [str |-> kind] or [list |-> <<kind, ...>>].  A field name is  *)
(* a sequence of one-character strings.  A call returns [ok |-> TRUE,      *)
(* v |-> value] or ends in [ok |-> FALSE, exc |-> exception].              *)
(***************************************************************************)
MaxKeyLen == 3
MaxTypes == 3
MaxProps == 2
MaxAlts == 2
MaxRequired == 1
MaxItems == 2

Chars == {"a", "1", "-", ".", "_"}
Digits == {"1"}
ListKinds == {"null", "NULL", "string", "integer"}

SeqsUpTo(S, n) == UNION {[1..m -> S] : m \in 0..n}

Return(v) == [ok |-> TRUE, v |-> v]
Raised(exc) == [ok |-> FALSE, exc |-> exc]

JSON_SCHEMA_LITERALS == {"boolean", "number", "integer", "string"}

\* Python's None where the code otherwise holds a str (a kind): kept a
\* string, distinct from every kind of the inputs, so that it can be
\* compared with one.
NoKind == "None"

\* str.lower() on the kinds of the inputs.
Lower(p_type) == IF p_type = "NULL" THEN "null" ELSE p_type

\* bool(prop.get('type'))
TypeGiven(prop) ==
    /\ "type" \in DOMAIN prop
    /\ IF "str" \in DOMAIN prop.type
       THEN prop.type.str # ""
       ELSE prop.type.list # <<>>

\* The loop over a list of kinds: nullable once a null is met, field_type
\* the latest kind that is not null.
RECURSIVE TypeLoop(_, _, _)
TypeLoop(prop_type, field_type, nullable) ==
    IF prop_type = <<>>
    THEN <<field_type, nullable>>
    ELSE IF Lower(Head(prop_type)) = "null"
         THEN TypeLoop(Tail(prop_type), field_type, TRUE)
         ELSE TypeLoop(Tail(prop_type), Head(prop_type), nullable)

get_type(prop) ==
    IF "anyOf" \in DOMAIN prop
    THEN Return(<<"anyOf", FALSE>>)
    ELSE IF ~TypeGiven(prop)
         THEN Raised("ValueError")
         ELSE IF "str" \in DOMAIN prop.type
              THEN Return(<<prop.type.str, FALSE>>)
              ELSE Return(TypeLoop(prop.type.list, NoKind, FALSE))

\* re.sub(pattern, repl, key) for a pattern that matches one given character.
SubChar(ch, repl, key) ==
    [i \in 1..Len(key) |-> IF key[i] = ch THEN repl ELSE key[i]]

\* re.sub(r'^\d', repl, key)
SubLeadingDigit(repl, key) ==
    IF key # <<>> /\ key[1] \in Digits THEN <<repl>> \o Tail(key) ELSE key

bigquery_transformed_key(key) ==
    SubChar(".", "_", SubLeadingDigit("_", SubChar("-", "_", key)))

\* bigquery.SchemaField(name, field_type, mode, description, fields)
SchemaField(name, field_type, mode, description, fields) ==
    [name |-> name, field_type |-> field_type, mode |-> mode,
     description |-> description, fields |-> fields]

\* bool(x) of a dict or of a list
Empty(x) == DOMAIN x = {}

\* define_schema's loop over the alternatives of an anyOf: the first
\* alternative whose kind is truthy replaces field_type and field.
RECURSIVE AnyOfLoop(_, _, _)
AnyOfLoop(props, field_type, field) ==
    IF props = <<>>
    THEN Return(<<field_type, field>>)
    ELSE LET prop == Head(props)
             got == get_type(prop)
         IN  IF ~got.ok
             THEN got
             ELSE IF got.v[1] \in {NoKind, ""}
                  THEN AnyOfLoop(Tail(props), field_type, field)
                  ELSE IF field_type = "anyOf"
                       THEN AnyOfLoop(Tail(props), got.v[1], prop)
                       ELSE AnyOfLoop(Tail(props), field_type, field)

\* The column type of a literal kind (string and number formats).
LiteralType(field_type, field) ==
    IF field_type = "string" /\ "format" \in DOMAIN field
    THEN CASE field.format = "date-time" -> "timestamp"
           [] field.format = "date" -> "date"
           [] field.format = "time" -> "time"
           [] OTHER -> field_type
    ELSE IF field_type = "number"
         THEN LET field_format == IF "format" \in DOMAIN field THEN field.format ELSE ""
              IN  CASE field_format = "float" -> "FLOAT64"
                    [] field_format = "numeric" -> "NUMERIC"
                    [] field_format = "bignumeric" -> "BIGNUMERIC"
                    [] OTHER -> "NUMERIC"
         ELSE field_type

RECURSIVE define_schema(_, _, _), build_schema(_, _), BuildLoop(_, _, _)

define_schema(field_in, name, required_fields) ==
    LET got == get_type(field_in)
        nullable == ~(name \in required_fields)
    IN  IF ~got.ok
        THEN got
        ELSE
    LET chosen == IF got.v[1] = "anyOf"
                  THEN AnyOfLoop(field_in.anyOf, "anyOf", field_in)
                  ELSE Return(<<got.v[1], field_in>>)
    IN  IF ~chosen.ok
        THEN chosen
        ELSE
    LET field_type == chosen.v[1]
        field == chosen.v[2]
        schema_mode == IF nullable THEN "NULLABLE" ELSE "required"
    IN  IF field_type = "object"
        THEN LET schema_fields == build_schema(field, None)
             IN  IF ~schema_fields.ok
                 THEN schema_fields
                 ELSE Return(SchemaField(name, "RECORD", schema_mode, None,
                                         schema_fields.v))
        ELSE IF field_type = "array"
        THEN LET props == IF "items" \in DOMAIN field THEN field.items ELSE <<>>
                 props_got == get_type(props)
             IN  IF ~props_got.ok
                 THEN props_got
                 ELSE IF props_got.v[1] = "object"
                      THEN LET schema_fields == build_schema(props, None)
                           IN  IF ~schema_fields.ok
                               THEN schema_fields
                               ELSE Return(SchemaField(name, "RECORD", "REPEATED",
                                                       None, schema_fields.v))
                      ELSE Return(SchemaField(name, props_got.v[1], "REPEATED",
                                              None, <<>>))
        ELSE IF field_type \notin JSON_SCHEMA_LITERALS
        THEN Raised("ValueError")
        ELSE Return(SchemaField(name, LiteralType(field_type, field), schema_mode,
                                None, <<>>))

\* build_schema's loop over schema['properties'].items()
BuildLoop(props, required_fields, built_schema) ==
    IF props = <<>>
    THEN Return(built_schema)
    ELSE IF Empty(Head(props).v)
         THEN BuildLoop(Tail(props), required_fields, built_schema)
         ELSE LET column == define_schema(Head(props).v,
                                          bigquery_transformed_key(Head(props).k),
                                          required_fields)
              IN  IF ~column.ok
                  THEN column
                  ELSE BuildLoop(Tail(props), required_fields,
                                 Append(built_schema, column.v))

build_schema(schema, key_props) ==
    LET from_keys == {key_props[i] : i \in 1..Len(key_props)}
        required_fields ==
            IF "required" \in DOMAIN schema
            THEN from_keys \cup {schema.required[i] : i \in 1..Len(schema.required)}
            ELSE from_keys
    IN  IF "properties" \notin DOMAIN schema
        THEN Raised("KeyError")
        ELSE BuildLoop(schema.properties, required_fields, <<>>)

\* A record value is None, [scalar |-> n] (0 stands for a falsy scalar),
\* [dict |-> entries] or [list |-> elements].
\* Records: a number (Scalar, no container), a str (its characters), a dict
\* (entries keyed by names), a list, or None.
Scalar(n) == [scalar |-> n]
Str(chars) == [string |-> chars]
Dict(entries) == [dict |-> entries]
List(elements) == [list |-> elements]

\* not record
Falsy(record) ==
    \/ Empty(record)
    \/ "scalar" \in DOMAIN record /\ record.scalar = 0
    \/ "string" \in DOMAIN record /\ record.string = <<>>
    \/ "dict" \in DOMAIN record /\ record.dict = <<>>
    \/ "list" \in DOMAIN record /\ record.list = <<>>

RECURSIVE filter_schema(_, _), FilterAnyOf(_, _), FilterProps(_, _, _),
          FilterItems(_, _, _)

\* The loop over schema['anyOf']: an alternative of kind 'null' is passed
\* over, the first other one projects the record; None when there is none.
FilterAnyOf(alts, record) ==
    IF alts = <<>>
    THEN Return(None)
    ELSE LET got == get_type(Head(alts))
         IN  IF ~got.ok
             THEN got
             ELSE IF got.v[1] = "null"
                  THEN FilterAnyOf(Tail(alts), record)
                  ELSE filter_schema(Head(alts), record)

\* key in record, for a record that is a container: a key of a dict, a
\* substring of a str, an element of a list.
Contains(record, key) ==
    IF "dict" \in DOMAIN record
    THEN Has(record.dict, key)
    ELSE IF "string" \in DOMAIN record
    THEN \E i \in 0..(Len(record.string) - Len(key)) :
            SubSeq(record.string, i + 1, i + Len(key)) = key
    ELSE \E i \in 1..Len(record.list) :
            /\ "string" \in DOMAIN record.list[i]
            /\ record.list[i].string = key

\* What a for loop over a container visits: the elements of a list, the
\* characters of a str, the keys of a dict.
Iterated(record) ==
    IF "list" \in DOMAIN record
    THEN record.list
    ELSE IF "string" \in DOMAIN record
    THEN [i \in 1..Len(record.string) |-> Str(<<record.string[i]>>)]
    ELSE [i \in 1..Len(record.dict) |-> Str(record.dict[i].k)]

\* The loop over props.items() of an object.  'key not in record' raises
\* TypeError on a number; record[key] raises TypeError on a str or a list.
FilterProps(props, record, obj_results) ==
    IF props = <<>>
    THEN Return(Dict(obj_results))
    ELSE LET key == Head(props).k
         IN  IF "scalar" \in DOMAIN record
             THEN Raised("TypeError")
             ELSE IF ~Contains(record, key)
             THEN FilterProps(Tail(props), record, obj_results)
             ELSE IF "dict" \notin DOMAIN record
             THEN Raised("TypeError")
             ELSE LET kept == filter_schema(Head(props).v, Get(record.dict, key))
                  IN  IF ~kept.ok
                      THEN kept
                      ELSE FilterProps(Tail(props), record,
                                       Put(obj_results, key, kept.v))

\* The loop over the elements of an array of objects.
FilterItems(props, elements, arr_result) ==
    IF elements = <<>>
    THEN Return(List(arr_result))
    ELSE LET kept == filter_schema(props, Head(elements))
         IN  IF ~kept.ok
             THEN kept
             ELSE FilterItems(props, Tail(elements), Append(arr_result, kept.v))

\* The record is whatever the message holds: under an object the keys are
\* looked up in it with 'in', under an array of objects it is iterated, and
\* a number (no container) raises TypeError in both.
filter_schema(schema, record) ==
    IF Falsy(record)
    THEN Return(record)
    ELSE
    LET got == get_type(schema)
    IN  IF ~got.ok
        THEN got
        ELSE
    LET field_type == got.v[1]
    IN  IF field_type \in JSON_SCHEMA_LITERALS
        THEN Return(record)
        ELSE IF field_type = "anyOf"
        THEN FilterAnyOf(schema.anyOf, record)
        ELSE IF field_type = "object"
        THEN LET props == IF "properties" \in DOMAIN schema
                          THEN schema.properties
                          ELSE <<>>
             IN  FilterProps(props, record, <<>>)
        ELSE IF field_type = "array"
        THEN LET props == IF "items" \in DOMAIN schema THEN schema.items ELSE <<>>
                 props_got == get_type(props)
             IN  IF ~props_got.ok
                 THEN props_got
                 ELSE IF props_got.v[1] # "object"
                      THEN Return(record)
                      ELSE IF "scalar" \in DOMAIN record
                           THEN Raised("TypeError")
                           ELSE FilterItems(props, Iterated(record), <<>>)
        ELSE Raised("ValueError")

\* persist_lines_job builds the schema of a load from the SCHEMA message's
\* schema and key_properties; persist_lines_stream builds the schema of the
\* table it creates from the message's schema alone.
JobTableSchema(msg) == build_schema(msg.schema, msg.key_properties)
StreamTableSchema(msg) == build_schema(msg.schema, None)

\* persist_lines_job on a SCHEMA message and a RECORD message of its stream:
\* the record is projected on the schema and spooled, and after the input
\* the load's schema is built from the same schema.
JobRecordAndLoadSchema(msg, record) ==
    LET record_input == filter_schema(msg.schema, record)
        load_schema == JobTableSchema(msg)
    IN  IF ~record_input.ok
        THEN record_input
        ELSE IF ~load_schema.ok
             THEN load_schema
             ELSE Return([record_input |-> record_input.v, schema |-> load_schema.v])

(***************************************************************************)
(* The calls SpecSchema draws from.                                        *)
(***************************************************************************)
TypeNodes ==
    {<<>>, [anyOf |-> <<>>]}
    \cup {[type |-> [str |-> kind]] : kind \in ListKinds \cup {"", "object"}}
    \cup {[type |-> [list |-> kinds]] : kinds \in SeqsUpTo(ListKinds, MaxTypes)}

KeyCalls ==
    {[fn |-> "bigquery_transformed_key", key |-> key] : key \in SeqsUpTo(Chars, MaxKeyLen)}

TypeCalls == {[fn |-> "get_type", prop |-> prop] : prop \in TypeNodes}

Typed(kind) == [type |-> [str |-> kind]]
Listed(kinds) == [type |-> [list |-> kinds]]
Entry(key, val) == [k |-> key, v |-> val]
ObjectOf(props) == [type |-> [str |-> "object"], properties |-> props]
ArrayOf(items) == [type |-> [str |-> "array"], items |-> items]

PropNames == {<<"a">>, <<"a", "-", "b">>, <<"a", "_", "b">>}

LeafNodes ==
    {<<>>, Typed("string"), Typed("integer"), Typed("number"), Typed("null"),
     Listed(<<"null", "string">>),
     [type |-> [str |-> "string"], format |-> "date-time"],
     [type |-> [str |-> "number"], format |-> "float"]}

InnerObject == ObjectOf(<<Entry(<<"a">>, Typed("string"))>>)

ObjectNodes ==
    {Typed("object"), InnerObject,
     [type |-> [str |-> "object"],
      properties |-> <<Entry(<<"a", "-", "b">>, Typed("string"))>>,
      required |-> << <<"a", "-", "b">> >>]}

ArrayNodes == {Typed("array"), ArrayOf(Typed("string")), ArrayOf(InnerObject)}

AltNodes == {Typed("null"), Listed(<<"null">>), Typed("string"), InnerObject}

AnyOfNodes == {[anyOf |-> alts] : alts \in SeqsUpTo(AltNodes, MaxAlts)}

FieldNodes == LeafNodes \cup ObjectNodes \cup ArrayNodes \cup AnyOfNodes

\* Nodes of the schemas that SCHEMA messages carry to the two strategies.
KeyNodes == {Typed("string"), ArrayOf(Typed("string"))}

DistinctKeys(props) ==
    \A i, j \in 1..Len(props) : props[i].k = props[j].k => i = j

PropLists(nodes) ==
    {props \in SeqsUpTo([k : PropNames, v : nodes], MaxProps) : DistinctKeys(props)}

\* A list of names; the empty one also stands for an absent key_properties.
NameLists == SeqsUpTo(PropNames, MaxRequired)

Schemas(nodes) ==
    {Typed("object")}
    \cup {[properties |-> props] : props \in PropLists(nodes)}
    \cup {[properties |-> props, required |-> required] :
             props \in PropLists(nodes), required \in NameLists \ {<<>>}}

DefineCalls ==
    {[fn |-> "define_schema", field |-> field, name |-> name,
      required_fields |-> required] :
         field \in FieldNodes,
         name \in {bigquery_transformed_key(key) : key \in PropNames},
         required \in {{}, {<<"a">>}}}

BuildCalls ==
    {[fn |-> "build_schema", schema |-> schema, key_properties |-> key_props] :
         schema \in Schemas(FieldNodes), key_props \in NameLists}

SchemaMessages ==
    {[schema |-> schema, key_properties |-> key_props] :
         schema \in Schemas(KeyNodes), key_props \in NameLists}

TableSchemaCalls ==
    {[fn |-> fn, msg |-> msg] :
         fn \in {"persist_lines_job", "persist_lines_stream"},
         msg \in SchemaMessages}

\* Nodes of the properties of the schemas that records are projected on.
FilterNodes ==
    {<<>>, Typed("string"), Typed("object"), Listed(<<"null", "string">>),
     InnerObject, ArrayOf(Typed("string")), ArrayOf(InnerObject),
     [anyOf |-> <<Typed("null"), InnerObject>>]}

\* A key that no schema declares.
Undeclared == <<".">>

\* Records that do not conform to an object or an array node: a number, a
\* str that holds the name a, one that does not, a list that holds the
\* str a, and a dict where a list is expected.
Strays ==
    {Scalar(1), Str(<<"a">>), Str(<<"_">>), List(<<Str(<<"a">>)>>),
     Dict(<<Entry(<<"_">>, Scalar(1))>>)}

\* The records drawn for a node: those that conform to it and, for an
\* object or an array, the strays.
RECURSIVE ValuesOf(_), EntriesOf(_)

ValuesOfKind(kind, node) ==
    CASE Lower(kind) = "null" -> {None}
      [] kind \in JSON_SCHEMA_LITERALS -> {Scalar(0), Scalar(1), Str(<<"a">>)}
      [] kind = "object" ->
            Strays \cup
            {Dict(entries) :
                entries \in EntriesOf(IF "properties" \in DOMAIN node
                                      THEN node.properties ELSE <<>>)}
      [] kind = "array" ->
            Strays \cup
            {List(elements) :
                elements \in SeqsUpTo(IF "items" \in DOMAIN node
                                      THEN ValuesOf(node.items)
                                      ELSE {Scalar(1)}, MaxItems)}
      [] OTHER -> {}

ValuesOf(node) ==
    IF Empty(node)
    THEN {Scalar(0), Scalar(1)}
    ELSE IF "anyOf" \in DOMAIN node
    THEN UNION {ValuesOf(node.anyOf[i]) : i \in 1..Len(node.anyOf)}
    ELSE IF ~TypeGiven(node)
    THEN {}
    ELSE IF "str" \in DOMAIN node.type
    THEN ValuesOfKind(node.type.str, node)
    ELSE UNION {ValuesOfKind(node.type.list[i], node) :
                   i \in 1..Len(node.type.list)}

EntriesOf(props) ==
    IF props = <<>>
    THEN {<<>>, <<Entry(Undeclared, Scalar(1))>>}
    ELSE LET rest == EntriesOf(Tail(props))
         IN  rest \cup {<<Entry(Head(props).k, val)>> \o entries :
                           val \in ValuesOf(Head(props).v), entries \in rest}

FilterSchemas ==
    FieldNodes \cup {ObjectOf(props) : props \in PropLists(FilterNodes)}

\* One declared field, of every name, and a record that holds it.
RecordCalls ==
    {[fn |-> "persist_lines_job.record",
      msg |-> [schema |-> ObjectOf(<<Entry(key, Typed("string"))>>),
               key_properties |-> <<>>],
      record |-> Dict(<<Entry(key, Scalar(1))>>)] :
         key \in SeqsUpTo(Chars, MaxKeyLen)}

FilterCall(schema, record) ==
    [fn |-> "filter_schema", schema |-> schema, record |-> record]

Called(fn) == invocation # None /\ invocation.fn = fn

Returns(fn) == Called(fn) /\ returned # None

RunIdle ==
    /\ config = [truncate |-> FALSE, stream_data |-> FALSE,
                 forced_fulltables |-> {}, table_prefix |-> "",
                 table_suffix |-> "", validate_records |-> FALSE]
    /\ bq_dataset = TRUE
    /\ bq_tables = {}
    /\ pc = "schema"
    /\ error = ""
    /\ lines = <<>>
    /\ state = None
    /\ schemas = <<>>
    /\ key_properties = <<>>
    /\ tables = <<>>
    /\ rows = <<>>
    /\ errors = <<>>
    /\ todo = <<>>
    /\ log = <<>>
    /\ now = 0
    /\ stdout = <<>>

run == <<config, bq_dataset, bq_tables, pc, error, lines, locals, todo, log,
         now, stdout>>

InitSchema ==
    /\ RunIdle
    /\ returned = None
    /\ \/ invocation \in KeyCalls
       \/ invocation \in TypeCalls
       \/ invocation \in DefineCalls
       \/ invocation \in BuildCalls
       \/ invocation \in TableSchemaCalls
       \/ invocation \in RecordCalls
       \/ \E schema \in FilterSchemas :
             \E record \in ValuesOf(schema) :
                invocation = FilterCall(schema, record)

Apply(fn, result) ==
    /\ Called(fn)
    /\ returned = None
    /\ returned' = result
    /\ UNCHANGED <<invocation, run>>

CallTransformedKey ==
    Apply("bigquery_transformed_key", Return(bigquery_transformed_key(invocation.key)))

CallGetType == Apply("get_type", get_type(invocation.prop))

CallDefineSchema ==
    Apply("define_schema",
          define_schema(invocation.field, invocation.name,
                        invocation.required_fields))

CallBuildSchema ==
    Apply("build_schema", build_schema(invocation.schema, invocation.key_properties))

CallJobTableSchema == Apply("persist_lines_job", JobTableSchema(invocation.msg))

CallStreamTableSchema ==
    Apply("persist_lines_stream", StreamTableSchema(invocation.msg))

CallFilterSchema ==
    Apply("filter_schema", filter_schema(invocation.schema, invocation.record))

CallJobRecordAndLoadSchema ==
    Apply("persist_lines_job.record",
          JobRecordAndLoadSchema(invocation.msg, invocation.record))

NextSchema ==
    \/ CallTransformedKey
    \/ CallGetType
    \/ CallDefineSchema
    \/ CallBuildSchema
    \/ CallJobTableSchema
    \/ CallStreamTableSchema
    \/ CallFilterSchema
    \/ CallJobRecordAndLoadSchema

SpecSchema == InitSchema /\ [][NextSchema]_vars

(***************************************************************************)
(* Vocabulary of the claims on schema.py.                                  *)
(***************************************************************************)
Elements(list) == {list[i] : i \in 1..Len(list)}

KindOf(node) == get_type(node).v[1]

HasKind(node, kind) == get_type(node).ok /\ KindOf(node) = kind

PropertiesOf(schema) ==
    IF "properties" \in DOMAIN schema THEN schema.properties ELSE <<>>

\* The properties that have a description, in the order of declaration.
Described(props) ==
    LET NotEmpty(entry) == ~Empty(entry.v) IN SelectSeq(props, NotEmpty)

\* The names that the node's required list and the key properties hold.
RequiredNames(schema, key_props) ==
    Elements(key_props)
        \cup (IF "required" \in DOMAIN schema THEN Elements(schema.required) ELSE {})

\* Column by column: an array is REPEATED, any other field is non-nullable
\* exactly when Required(its declared name).
ModesFollow(props, columns, Required(_)) ==
    /\ Len(columns) = Len(Described(props))
    /\ \A i \in 1..Len(columns) :
          LET entry == Described(props)[i]
          IN  IF HasKind(entry.v, "array")
              THEN columns[i].mode = "REPEATED"
              ELSE /\ columns[i].mode \in {"required", "NULLABLE"}
                   /\ columns[i].mode = "required" <=> Required(entry.k)

(***************************************************************************)
(* C14: in the columns build_schema makes of an object schema, a field     *)
(* that is not an array is non-nullable if and only if its declared name   *)
(* is in the node's required list or among the key properties, whether or  *)
(* not sanitization changes the name; an array field is REPEATED.          *)
(***************************************************************************)
C14_RequiredByDeclaredName ==
    (Returns("build_schema") /\ returned.ok) =>
        LET Required(key) ==
                key \in RequiredNames(invocation.schema, invocation.key_properties)
        IN  ModesFollow(invocation.schema.properties, returned.v, Required)

(***************************************************************************)
(* C15: in both strategies the key properties of a SCHEMA message make     *)
(* their fields non-nullable in the table's column schema: every key       *)
(* property that is a declared field and not an array has a required       *)
(* column, in the schema of the load (batch) and of the created table      *)
(* (streaming).                                                            *)
(***************************************************************************)
KeyColumnsRequired(msg, columns) ==
    /\ Len(columns) = Len(Described(msg.schema.properties))
    /\ \A i \in 1..Len(columns) :
          LET entry == Described(msg.schema.properties)[i]
          IN  (entry.k \in Elements(msg.key_properties) /\ ~HasKind(entry.v, "array"))
                  => columns[i].mode = "required"

C15_KeyPropertiesRequired ==
    ((Returns("persist_lines_job") \/ Returns("persist_lines_stream")) /\ returned.ok)
        => KeyColumnsRequired(invocation.msg, returned.v)

(***************************************************************************)
(* C16: for an anyOf node, define_schema and filter_schema both go by the  *)
(* first alternative that does not resolve to null: the column is the one  *)
(* define_schema makes of that alternative, and a record is projected as   *)
(* filter_schema projects it against that alternative.                     *)
(***************************************************************************)
NullAlternative(alt) == get_type(alt).ok /\ Lower(KindOf(alt)) \in {"null", NoKind}

NonNullAlternatives(alts) ==
    LET Kept(alt) == ~NullAlternative(alt) IN SelectSeq(alts, Kept)

UnionWithChoice(node) ==
    /\ "anyOf" \in DOMAIN node
    /\ NonNullAlternatives(node.anyOf) # <<>>

FirstNonNull(node) == Head(NonNullAlternatives(node.anyOf))

C16_SameFirstNonNullAlternative ==
    /\ (Returns("define_schema") /\ UnionWithChoice(invocation.field)) =>
          returned = define_schema(FirstNonNull(invocation.field), invocation.name,
                                   invocation.required_fields)
    /\ (Returns("filter_schema") /\ UnionWithChoice(invocation.schema)
            /\ ~Falsy(invocation.record)) =>
          returned = filter_schema(FirstNonNull(invocation.schema), invocation.record)

(***************************************************************************)
(* C17: for a node whose type is a list of kinds, get_type returns the     *)
(* first kind of the list that is not null, and reports the node nullable  *)
(* if and only if the list holds a null.                                   *)
(***************************************************************************)
IsNullKind(kind) == Lower(kind) = "null"

NonNullKinds(kinds) ==
    LET Kept(kind) == ~IsNullKind(kind) IN SelectSeq(kinds, Kept)

TypeListCall ==
    /\ Returns("get_type")
    /\ TypeGiven(invocation.prop)
    /\ "list" \in DOMAIN invocation.prop.type

C17_FirstNonNullKind ==
    TypeListCall =>
        LET kinds == invocation.prop.type.list
        IN  /\ returned.ok
            /\ NonNullKinds(kinds) # <<>> => returned.v[1] = Head(NonNullKinds(kinds))
            /\ returned.v[2] <=> \E i \in 1..Len(kinds) : IsNullKind(kinds[i])

(***************************************************************************)
(* C19: bigquery_transformed_key turns every hyphen and every dot into an  *)
(* underscore and puts a prefix before a name that begins with a digit,    *)
(* the digit staying in place after the prefix; a name with no hyphen, no  *)
(* dot and no leading digit is returned as it is.                          *)
(***************************************************************************)
Underscored(key) ==
    [i \in 1..Len(key) |-> IF key[i] \in {"-", "."} THEN "_" ELSE key[i]]

C19_DigitPrefixed ==
    Returns("bigquery_transformed_key") =>
        LET key == invocation.key
            out == returned.v
        IN  IF key # <<>> /\ key[1] \in Digits
            THEN /\ Len(out) > Len(key)
                 /\ SubSeq(out, Len(out) - Len(key) + 1, Len(out)) = Underscored(key)
            ELSE out = Underscored(key)

(***************************************************************************)
(* C18: projecting a non-empty record on an object node keeps exactly the  *)
(* keys that the node declares and the record holds, also in nested        *)
(* objects and in each element of an array of objects; an absent or empty  *)
(* value is returned as it is.                                             *)
(***************************************************************************)
RECURSIVE Projected(_, _, _)
Projected(node, value, out) ==
    IF Falsy(value)
    THEN out = value
    ELSE IF HasKind(node, "object") /\ "dict" \in DOMAIN value
    THEN /\ "dict" \in DOMAIN out
         /\ Elements(Keys(out.dict)) =
               Elements(Keys(PropertiesOf(node))) \cap Elements(Keys(value.dict))
         /\ \A i \in 1..Len(PropertiesOf(node)) :
               LET entry == PropertiesOf(node)[i]
               IN  (Has(value.dict, entry.k) /\ Has(out.dict, entry.k)) =>
                      Projected(entry.v, Get(value.dict, entry.k), Get(out.dict, entry.k))
    ELSE IF HasKind(node, "array") /\ "items" \in DOMAIN node
            /\ HasKind(node.items, "object") /\ "list" \in DOMAIN value
    THEN /\ "list" \in DOMAIN out
         /\ Len(out.list) = Len(value.list)
         /\ \A i \in 1..Len(value.list) :
               Projected(node.items, value.list[i], out.list[i])
    ELSE TRUE

C18_ProjectionKeepsDeclaredKeys ==
    Returns("filter_schema") =>
        /\ Falsy(invocation.record) => returned = Return(invocation.record)
        /\ (HasKind(invocation.schema, "object") /\ "dict" \in DOMAIN invocation.record)
              => /\ returned.ok
                 /\ Projected(invocation.schema, invocation.record, returned.v)

(***************************************************************************)
(* C20: build_schema makes of an object node exactly one column for each   *)
(* declared property that has a description, in the order of declaration,  *)
(* and none for a property whose description is empty.                     *)
(***************************************************************************)
C20_OneColumnPerDescribedProperty ==
    Returns("build_schema") =>
        LET described == Described(PropertiesOf(invocation.schema))
        IN  /\ returned.ok
            /\ [i \in 1..Len(returned.v) |-> returned.v[i].name]
                  = [i \in 1..Len(described) |-> bigquery_transformed_key(described[i].k)]

(***************************************************************************)
(* C26: every top-level key of the projected record that persist_lines_job *)
(* spools is the name of a column of the load schema built from the same   *)
(* schema, also for a declared name that holds a hyphen or a dot or begins *)
(* with a digit.                                                           *)
(***************************************************************************)
C26_ProjectedKeysAreColumns ==
    (Returns("persist_lines_job.record") /\ returned.ok) =>
        \A i \in 1..Len(returned.v.record_input.dict) :
            \E j \in 1..Len(returned.v.schema) :
                returned.v.schema[j].name = returned.v.record_input.dict[i].k
====
